---- MODULE Spec2Model ----
(***************************************************************************)
(* Model of the connection-pooling Agent of src/http.js.                   *)
(*                                                                         *)
(* The Agent keeps three maps keyed by the destination name (getName):     *)
(* requests (queued requests), sockets (busy sockets) and freeSockets      *)
(* (idle sockets).  A key may be absent from a map; an absent key and a    *)
(* key mapped to an empty array are different states, as in the code.      *)
(* Sockets and requests are objects of the environment; the model keeps    *)
(* of each what the Agent reads or what its calls change.                  *)
(***************************************************************************)
EXTENDS Integers, Sequences, FiniteSets, Bags, TLC

\* Number of requests the environment submits and of sockets it creates.
MaxRequests == 3
MaxSocketObjs == 3

\* Values the constructor options are drawn from.
MaxSocketsChoices == {1, 2}
MaxFreeSocketsChoices == {1, 2}

\* Request options: host is optional ("" is absent), as is localAddress.
RequestOptions ==
  { [host |-> "", port |-> 80, localAddress |-> ""],
    [host |-> "localhost", port |-> 80, localAddress |-> ""] }

VARIABLES
  tunnelClient,           \* TRUE iff options.proxy was given (this.tunnelClient)
  keepAlive,              \* this.options.keepAlive
  maxSockets,             \* this.maxSockets
  maxFreeSockets,         \* this.maxFreeSockets
  keepAliveTimeoutMsecs,  \* TRUE iff options.keepAliveTimeoutMsecs is set
  requests,               \* this.requests: name -> sequence of request ids
  sockets,                \* this.sockets: name -> sequence of socket ids
  freeSockets,            \* this.freeSockets: name -> sequence of socket ids
  sock,                   \* the socket objects created so far
  req,                    \* the requests passed to addRequest so far
  attempts,               \* tunnelClient.connect calls whose callback is pending
  served,                 \* name -> requests taken off its queue and given a
                          \* socket, in that order
  destroyCall             \* history, kept by SpecDestroy only: whether
                          \* agent.destroy() was called, the sockets listed
                          \* at the call and whether a connect call was
                          \* pending then

config == <<tunnelClient, keepAlive, maxSockets, maxFreeSockets,
            keepAliveTimeoutMsecs>>
vars == <<tunnelClient, keepAlive, maxSockets, maxFreeSockets,
          keepAliveTimeoutMsecs, requests, sockets, freeSockets, sock, req,
          attempts, served, destroyCall>>

\* The mutable state as one record, so that a handler that calls another
\* handler is the composition of two operators.
State ==
  [requests |-> requests, sockets |-> sockets, freeSockets |-> freeSockets,
   sock |-> sock, req |-> req, attempts |-> attempts, served |-> served,
   destroyCall |-> destroyCall]

----------------------------------------------------------------------------
\* Maps with optional keys.

Has(map, name) == name \in DOMAIN map

Len0(map, name) == IF Has(map, name) THEN Len(map[name]) ELSE 0

Put(map, name, v) ==
  [k \in DOMAIN map \cup {name} |-> IF k = name THEN v ELSE map[k]]

Delete(map, name) == [k \in DOMAIN map \ {name} |-> map[k]]

Range(seq) == {seq[i] : i \in DOMAIN seq}

IndexOf(seq, x) ==
  IF x \in Range(seq)
    THEN CHOOSE i \in DOMAIN seq : seq[i] = x /\ \A j \in 1..(i - 1) : seq[j] # x
    ELSE 0

Splice(seq, i) == [j \in 1..(Len(seq) - 1) |-> IF j < i THEN seq[j] ELSE seq[j + 1]]

----------------------------------------------------------------------------
\* Agent.prototype.getName
getName(options) ==
  << IF options.host # "" THEN options.host ELSE "localhost",
     options.port,
     options.localAddress >>

Names == {getName(o) : o \in RequestOptions}

\* req.onSocket(socket): the request takes the socket.
onSocket(st, r, s) ==
  [st EXCEPT !.req[r].socks = Append(@, s),
             !.sock[s].httpMessage = r,
             !.sock[s].held = TRUE]

\* req.emit('error', err)
emitError(st, r) == [st EXCEPT !.req[r].errors = @ + 1]

\* socket.destroy(): the socket is destroyed at once, its 'close' event
\* is emitted later.
destroySocket(st, s) == [st EXCEPT !.sock[s].destroyed = TRUE]

\* One iteration of the sets.forEach of removeSocket.
removeFromSet(map, name, s) ==
  IF Has(map, name) /\ IndexOf(map[name], s) # 0
    THEN LET rest == Splice(map[name], IndexOf(map[name], s))
         IN IF Len(rest) = 0 THEN Delete(map, name) ELSE Put(map, name, rest)
    ELSE map

\* requests[name].shift(), and the "don't leak" delete of the entry.
shiftRequest(st, name) ==
  LET rest == Tail(st.requests[name])
  IN [st EXCEPT !.requests = IF Len(rest) = 0 THEN Delete(@, name)
                              ELSE Put(@, name, rest)]

\* dispatchQueued with pop() in place of shift().
dispatchQueued_newest(st, s, name) ==
  LET q == st.requests[name]
      r == q[Len(q)]
      rest == SubSeq(q, 1, Len(q) - 1)
      st1 == [st EXCEPT !.requests = IF Len(rest) = 0 THEN Delete(@, name)
                                      ELSE Put(@, name, rest),
                        !.served[name] = Append(@, r)]
  IN onSocket(st1, r, s)

\* The first branch of the 'free' handler: the socket goes to the oldest
\* queued request.
dispatchQueued(st, s, name) ==
  LET r == Head(st.requests[name])
      st1 == [shiftRequest(st, name) EXCEPT !.served[name] = Append(@, r)]
  IN onSocket(st1, r, s)

\* requestWaiting that hands only a socket with no request on it to the
\* queue: a released socket goes on to the pooling branch.
requestWaiting_freshOnly(st, s, name) ==
  /\ ~st.sock[s].destroyed
  /\ st.sock[s].httpMessage = 0
  /\ Has(st.requests, name)
  /\ Len(st.requests[name]) > 0

\* The test of the 'free' handler: the socket is usable and a request is
\* queued under its name.
requestWaiting(st, s, name) ==
  /\ ~st.sock[s].destroyed
  /\ Has(st.requests, name)
  /\ Len(st.requests[name]) > 0

\* mayPool without the test of self.options.keepAlive.
mayPool_ignoresOption(st, s, shouldKeepAlive) ==
  /\ st.sock[s].httpMessage # 0
  /\ shouldKeepAlive
  /\ ~st.sock[s].destroyed

\* The condition under which the 'free' handler considers pooling.
mayPool(st, s, shouldKeepAlive) ==
  /\ st.sock[s].httpMessage # 0
  /\ shouldKeepAlive
  /\ ~st.sock[s].destroyed
  /\ keepAlive

\* overCapacity with > in place of >= on the free list.
overCapacity_offByOne(count, freeLen) ==
  count > maxSockets \/ freeLen > maxFreeSockets

\* The capacity check of the 'free' handler.
overCapacity(count, freeLen) ==
  count > maxSockets \/ freeLen >= maxFreeSockets

\* underLimit that counts the socket to be created twice.
underLimit_offByOne(sockLen) == sockLen + 1 < maxSockets

\* The under-limit check of addRequest.
underLimit(sockLen) == sockLen < maxSockets

\* enqueue with unshift() in place of push().
enqueue_atFront(st, name, r) ==
  LET q == IF Has(st.requests, name) THEN st.requests[name] ELSE <<>>
  IN [st EXCEPT !.requests = Put(@, name, <<r>> \o q)]

\* this.requests[name].push(req), creating the entry when absent.
enqueue(st, name, r) ==
  LET q == IF Has(st.requests, name) THEN st.requests[name] ELSE <<>>
  IN [st EXCEPT !.requests = Put(@, name, Append(q, r))]

\* takeFree with [0] in place of shift(): the socket stays in the list.
takeFree_keepsSocket(st, name) ==
  [socket |-> Head(st.freeSockets[name]), st |-> st]

\* takeFree with pop() in place of shift().
takeFree_newest(st, name) ==
  LET free == st.freeSockets[name]
      rest == SubSeq(free, 1, Len(free) - 1)
  IN [socket |-> free[Len(free)],
      st |-> [st EXCEPT !.freeSockets = IF Len(rest) = 0 THEN Delete(@, name)
                                         ELSE Put(@, name, rest)]]

\* this.freeSockets[name].shift(), and the "don't leak" delete of the
\* entry: the socket taken and the state it leaves.
takeFree(st, name) ==
  LET rest == Tail(st.freeSockets[name])
  IN [socket |-> Head(st.freeSockets[name]),
      st |-> [st EXCEPT !.freeSockets = IF Len(rest) = 0 THEN Delete(@, name)
                                         ELSE Put(@, name, rest)]]

RECURSIVE removeSocket(_, _, _)
RECURSIVE replaceForQueued(_, _)
RECURSIVE createSocket(_, _, _, _)
RECURSIVE afterCreateSocket(_, _, _, _)
RECURSIVE onAgentFree(_, _, _)

\* The Agent's 'free' handler.  shouldKeepAlive is req.shouldKeepAlive of
\* the request in socket._httpMessage.
onAgentFree(st, s, shouldKeepAlive) ==
  LET name == st.sock[s].name
  IN
  IF requestWaiting(st, s, name)
    THEN dispatchQueued(st, s, name)
    ELSE
      IF mayPool(st, s, shouldKeepAlive)
        THEN LET freeLen == Len0(st.freeSockets, name)
                 count == freeLen + Len0(st.sockets, name)
             IN IF overCapacity(count, freeLen)
                  THEN destroySocket(removeSocket(st, s, name), s)
                  ELSE LET st1 == [st EXCEPT !.sock[s].httpMessage = 0]
                           st2 == removeSocket(st1, s, name)
                           free == IF Has(st.freeSockets, name)
                                     THEN st2.freeSockets[name] ELSE <<>>
                       IN [st2 EXCEPT !.freeSockets = Put(@, name, Append(free, s))]
        ELSE destroySocket(removeSocket(st, s, name), s)

\* Agent.prototype._afterCreateSocket, followed by callback(null, s).
\* kind names the callback: "add" is the one addRequest passes, "replace"
\* the one removeSocket passes.
afterCreateSocket(st, name, kind, r) ==
  LET s == Len(st.sock) + 1
      busy == IF Has(st.sockets, name) THEN st.sockets[name] ELSE <<>>
      st1 == [st EXCEPT
                !.sockets = Put(@, name, Append(busy, s)),
                !.sock = Append(@, [name |-> name, destroyed |-> FALSE,
                                    closed |-> FALSE, hooked |-> TRUE,
                                    httpMessage |-> 0, held |-> FALSE])]
  IN IF kind = "add"
       THEN onSocket(st1, r, s)
       ELSE onAgentFree(st1, s, FALSE)

\* Agent.prototype.createSocket with Agent.prototype._createConnection:
\* the tunnel client calls back later, net.createConnection returns the
\* socket at once.  The Agent's own options carry no host, port or
\* localAddress, so the name of the merged options is the request's name.
createSocket(st, r, name, kind) ==
  IF tunnelClient
    THEN [st EXCEPT !.attempts = @ (+) SetToBag({[kind |-> kind, req |-> r,
                                                   name |-> name]})]
    ELSE afterCreateSocket(st, name, kind, r)

\* replaceForQueued that makes no socket.
replaceForQueued_never(st, name) == st

\* The end of removeSocket: with a request queued, make a new socket.
replaceForQueued(st, name) ==
  IF Has(st.requests, name) /\ Len(st.requests[name]) > 0
    THEN createSocket(st, st.requests[name][1], name, "replace")
    ELSE st

\* Agent.prototype.removeSocket
removeSocket(st, s, name) ==
  replaceForQueued(
    [st EXCEPT !.sockets = removeFromSet(@, name, s),
               !.freeSockets = IF st.sock[s].destroyed
                                 THEN removeFromSet(@, name, s) ELSE @],
    name)

\* Agent.prototype.addRequest
addRequest(st0, options) ==
  LET name == getName(options)
      r == Len(st0.req) + 1
      st == [st0 EXCEPT !.req = Append(@, [name |-> name, socks |-> <<>>,
                                           errors |-> 0]),
                        !.sockets = IF Has(@, name) THEN @ ELSE Put(@, name, <<>>)]
      freeLen == Len0(st.freeSockets, name)
      sockLen == freeLen + Len(st.sockets[name])
  IN
  IF freeLen > 0
    THEN LET taken == takeFree(st, name)
             s == taken.socket
             st1 == onSocket(taken.st, r, s)
         IN [st1 EXCEPT !.sockets = Put(@, name, Append(st1.sockets[name], s))]
    ELSE IF underLimit(sockLen)
      THEN createSocket(st, r, name, "add")
      ELSE enqueue(st, name, r)

\* onAgentTunnelError with [0] in place of shift().
onAgentTunnelError_noShift(st, name) ==
  IF ~Has(st.requests, name)
    THEN st
    ELSE IF Len(st.requests[name]) > 0
      THEN emitError(st, Head(st.requests[name]))
      ELSE st

\* The Agent's 'tunnelError' handler.  Without an entry for the name,
\* self.requests[name].length throws a TypeError and nothing changes.
onAgentTunnelError(st, name) ==
  IF ~Has(st.requests, name)
    THEN st
    ELSE IF Len(st.requests[name]) > 0
      THEN emitError(shiftRequest(st, name), Head(st.requests[name]))
      ELSE st

\* onCreateError that fails the oldest queued request when there is one,
\* as the 'tunnelError' handler does.
onCreateError_failsQueueHead(st, r, name) ==
  IF Has(st.requests, name) /\ Len(st.requests[name]) > 0
    THEN emitError(shiftRequest(st, name), Head(st.requests[name]))
    ELSE emitError(st, r)

\* The callback addRequest passes to createSocket, called with an error.
onCreateError(st, r, name) == emitError(st, r)

\* The sockets in the lists destroy() walks.
AllListed(st) ==
  UNION {Range(st.freeSockets[n]) : n \in DOMAIN st.freeSockets}
  \cup UNION {Range(st.sockets[n]) : n \in DOMAIN st.sockets}

\* Agent.prototype.destroy
destroyAll(st) ==
  LET tracked == AllListed(st)
  IN [st EXCEPT !.sock = [s \in DOMAIN st.sock |->
                            IF s \in tracked
                              THEN [st.sock[s] EXCEPT !.destroyed = TRUE]
                              ELSE st.sock[s]]]

----------------------------------------------------------------------------
\* The state after a handler has run.
Becomes(st) ==
  /\ Len(st.sock) <= MaxSocketObjs
  /\ requests' = st.requests
  /\ sockets' = st.sockets
  /\ freeSockets' = st.freeSockets
  /\ sock' = st.sock
  /\ req' = st.req
  /\ attempts' = st.attempts
  /\ served' = st.served
  /\ destroyCall' = st.destroyCall
  /\ UNCHANGED config

Init ==
  /\ tunnelClient \in BOOLEAN
  /\ keepAlive \in BOOLEAN
  /\ maxSockets \in MaxSocketsChoices
  /\ maxFreeSockets \in MaxFreeSocketsChoices
  /\ keepAliveTimeoutMsecs \in BOOLEAN
  /\ requests = <<>>
  /\ sockets = <<>>
  /\ freeSockets = <<>>
  /\ sock = <<>>
  /\ req = <<>>
  /\ attempts = EmptyBag
  /\ served = [n \in Names |-> <<>>]
  /\ destroyCall = [called |-> FALSE, socks |-> {}, pending |-> FALSE]

\* A caller passes a new request to addRequest.
AddRequest(options) ==
  /\ Len(req) < MaxRequests
  /\ Becomes(addRequest(State, options))

\* The tunnel client calls back with a socket.
ConnectSuccess(a) ==
  /\ BagIn(a, attempts)
  /\ Becomes(afterCreateSocket(
       [State EXCEPT !.attempts = @ (-) SetToBag({a})], a.name, a.kind, a.req))

\* The tunnel client calls back with an error.  The callback of addRequest
\* emits it on the request; the callback of removeSocket calls emit on its
\* second argument, which is undefined: it throws a TypeError and nothing
\* else changes.
ConnectError(a) ==
  /\ BagIn(a, attempts)
  /\ LET st == [State EXCEPT !.attempts = @ (-) SetToBag({a})]
     IN IF a.kind = "add"
          THEN Becomes(onCreateError(st, a.req, a.name))
          ELSE Becomes(st)

\* The consumer of a socket is done with it and emits 'free' on it.
SocketFree(s, shouldKeepAlive) ==
  /\ s \in DOMAIN sock
  /\ sock[s].hooked /\ sock[s].held
  /\ Becomes(onAgentFree([State EXCEPT !.sock[s].held = FALSE], s,
                         shouldKeepAlive))

\* The transport fails or the peer closes: the socket becomes destroyed.
TransportDestroy(s) ==
  /\ s \in DOMAIN sock
  /\ ~sock[s].destroyed
  /\ Becomes(destroySocket(State, s))

\* The 'close' event of a destroyed socket: onClose.
SocketClose(s) ==
  /\ s \in DOMAIN sock
  /\ sock[s].destroyed /\ ~sock[s].closed
  /\ LET st == [State EXCEPT !.sock[s].closed = TRUE]
     IN IF sock[s].hooked
          THEN Becomes(removeSocket(st, s, sock[s].name))
          ELSE Becomes(st)

\* The idle timeout of a socket: s._reapTimeout.
ReapTimeout(s) ==
  /\ keepAliveTimeoutMsecs
  /\ s \in DOMAIN sock
  /\ ~sock[s].destroyed
  /\ Becomes(removeSocket(destroySocket(State, s), s, sock[s].name))

\* The consumer emits 'agentRemove' on its socket: onRemove.
AgentRemove(s) ==
  /\ s \in DOMAIN sock
  /\ sock[s].hooked /\ sock[s].held
  /\ LET st == removeSocket(State, s, sock[s].name)
     IN Becomes([st EXCEPT !.sock[s].hooked = FALSE, !.sock[s].held = FALSE])

\* 'tunnelError' is emitted on a socket: onTunnelError.
SocketTunnelError(s) ==
  /\ tunnelClient
  /\ s \in DOMAIN sock
  /\ Becomes(onAgentTunnelError(State, sock[s].name))

\* agent.destroy()
AgentDestroy ==
  /\ \E n \in DOMAIN sockets \cup DOMAIN freeSockets :
       \E s \in Range(IF Has(sockets, n) THEN sockets[n] ELSE <<>>)
                \cup Range(IF Has(freeSockets, n) THEN freeSockets[n] ELSE <<>>) :
         ~sock[s].destroyed
  /\ Becomes(destroyAll(State))

Attempts == [kind : {"add", "replace"}, req : 1..MaxRequests, name : Names]

Next ==
  \/ \E o \in RequestOptions : AddRequest(o)
  \/ \E a \in Attempts : ConnectSuccess(a)
  \/ \E a \in Attempts : ConnectError(a)
  \/ \E s \in 1..MaxSocketObjs, k \in BOOLEAN : SocketFree(s, k)
  \/ \E s \in 1..MaxSocketObjs : TransportDestroy(s)
  \/ \E s \in 1..MaxSocketObjs : SocketClose(s)
  \/ \E s \in 1..MaxSocketObjs : ReapTimeout(s)
  \/ \E s \in 1..MaxSocketObjs : AgentRemove(s)
  \/ \E s \in 1..MaxSocketObjs : SocketTunnelError(s)
  \/ AgentDestroy

Spec == Init /\ [][Next]_vars

\* The shutdown of an Agent: agent.destroy() is called once, at any time,
\* and is recorded; after it the callers submit and release nothing, and
\* only the 'close' events of the sockets and the callbacks of the tunnel
\* client arrive.
AgentDestroyRecorded ==
  /\ ~destroyCall.called
  /\ AllListed(State) # {}
  /\ Becomes([destroyAll(State) EXCEPT
               !.destroyCall = [called |-> TRUE, socks |-> AllListed(State),
                                pending |-> attempts # EmptyBag]])

NextDestroy ==
  \/ ~destroyCall.called /\ \E o \in RequestOptions : AddRequest(o)
  \/ \E a \in Attempts : ConnectSuccess(a)
  \/ \E a \in Attempts : ConnectError(a)
  \/ ~destroyCall.called /\ \E s \in 1..MaxSocketObjs, k \in BOOLEAN : SocketFree(s, k)
  \/ ~destroyCall.called /\ \E s \in 1..MaxSocketObjs : TransportDestroy(s)
  \/ \E s \in 1..MaxSocketObjs : SocketClose(s)
  \/ ~destroyCall.called /\ \E s \in 1..MaxSocketObjs : ReapTimeout(s)
  \/ ~destroyCall.called /\ \E s \in 1..MaxSocketObjs : AgentRemove(s)
  \/ ~destroyCall.called /\ \E s \in 1..MaxSocketObjs : SocketTunnelError(s)
  \/ AgentDestroyRecorded

SpecDestroy == Init /\ [][NextDestroy]_vars

----------------------------------------------------------------------------
\* What the properties below read.

Busy(n) == IF Has(sockets, n) THEN sockets[n] ELSE <<>>
Free(n) == IF Has(freeSockets, n) THEN freeSockets[n] ELSE <<>>
Queue(n) == IF Has(requests, n) THEN requests[n] ELSE <<>>

NoDuplicates(seq) == \A i, j \in DOMAIN seq : seq[i] = seq[j] => i = j

Assigned(r) == Len(req[r].socks) > 0
Failed(r) == req[r].errors > 0
TimesQueued(r) ==
  Cardinality({i \in DOMAIN Queue(req[r].name) : Queue(req[r].name)[i] = r})
OwnAttempts(r) ==
  CopiesIn([kind |-> "add", req |-> r, name |-> req[r].name], attempts)

\* The requests that held socket s at some time.
Holders(s) == {r \in DOMAIN req : s \in Range(req[r].socks)}

----------------------------------------------------------------------------
\* C1: for every destination, once an acquisition has completed, the
\* number of busy sockets plus the number of free sockets is at most
\* maxSockets.
C1_WithinMaxSockets ==
  \A n \in Names :
    (\E r \in DOMAIN req : Assigned(r))
      => Len(Busy(n)) + Len(Free(n)) <= maxSockets

\* C2: no socket is both busy and free, and none is listed twice in
\* either list.
C2_BusyFreeDisjoint ==
  \A n \in Names :
    /\ Range(Busy(n)) \cap Range(Free(n)) = {}
    /\ NoDuplicates(Busy(n))
    /\ NoDuplicates(Free(n))

\* A socket taken from the free list is busy for its second request while
\* another socket is free.
C2_Witness ==
  \E n \in Names :
    /\ Len(Free(n)) > 0
    /\ Len(served[n]) = 0
    /\ \E s \in Range(Busy(n)) : Cardinality(Holders(s)) >= 2

\* C3: every request passed to addRequest is exactly one of: given exactly
\* one socket; waiting, either once in its queue or on its own connect
\* call; failed with exactly one error.
C3_RequestOutcome ==
  \A r \in DOMAIN req :
    LET waiting == TimesQueued(r) + OwnAttempts(r)
    IN \/ Len(req[r].socks) = 1 /\ req[r].errors = 0 /\ waiting = 0
       \/ Len(req[r].socks) = 0 /\ req[r].errors = 0 /\ waiting = 1
       \/ Len(req[r].socks) = 0 /\ req[r].errors = 1 /\ waiting = 0

\* One request has a socket, one has failed and one is queued.
C3_Witness ==
  \E a, b, c \in DOMAIN req :
    /\ Assigned(a)
    /\ Failed(b)
    /\ TimesQueued(c) = 1

\* C4: the requests taken off a destination's queue and given a socket are
\* taken in the order of their submission (a request's id is its position
\* in the order of the addRequest calls), and none is taken before one that
\* was submitted earlier and still waits in the queue.
C4_QueueIsFifo ==
  \A n \in Names :
    /\ \A i, j \in DOMAIN served[n] : i < j => served[n][i] < served[n][j]
    /\ \A i \in DOMAIN served[n] : \A q \in Range(Queue(n)) : served[n][i] < q

\* Two queued requests of one destination have been served.
C4_Witness ==
  \E n \in Names : Len(served[n]) >= 2

\* C5 as stated: a destination's queue is non-empty only if its busy and
\* free sockets number at least maxSockets.
C5_QueueOnlyAtCapacity ==
  \A n \in Names :
    Len(Queue(n)) > 0 => Len(Busy(n)) + Len(Free(n)) >= maxSockets

\* C5 as amended: without a tunnel client (sockets are created within the
\* call), a destination's queue is non-empty only if its busy and free
\* sockets number at least maxSockets.
C5_QueueOnlyAtCapacityDirect ==
  ~tunnelClient => C5_QueueOnlyAtCapacity

\* Without a tunnel client a socket was closed, a queued request got its
\* replacement and another request still waits.
C5_Witness ==
  /\ ~tunnelClient
  /\ \E n \in Names :
       /\ Len(Queue(n)) > 0
       /\ Len(served[n]) > 0
       /\ \E s \in DOMAIN sock : sock[s].name = n /\ sock[s].closed

\* new keeps the order of the elements it shares with old and has every
\* other element behind them.
GrowsAtTail(old, new) ==
  \A i, j \in DOMAIN new :
    i < j =>
      /\ new[i] \in Range(old) /\ new[j] \in Range(old)
           => IndexOf(old, new[i]) < IndexOf(old, new[j])
      /\ new[i] \notin Range(old) => new[j] \notin Range(old)

\* C6: addRequest for a destination with a free socket makes no connect
\* call and creates no socket; the request gets the head of the free list,
\* which moves to the end of the busy list.  The head is the socket pooled
\* earliest: in every step a free list keeps the order of its sockets and
\* takes a new one at its end.
C6_ReuseOldestFree ==
  [][ /\ \A o \in RequestOptions :
           Len(Free(getName(o))) > 0 /\ AddRequest(o) =>
             LET n == getName(o)
                 s == Head(Free(n))
                 r == Len(req) + 1
             IN /\ attempts' = attempts
                /\ sock' = [sock EXCEPT ![s].httpMessage = r, ![s].held = TRUE]
                /\ req'[r].socks = <<s>>
                /\ Free(n)' = Tail(Free(n))
                /\ Busy(n)' = Append(Busy(n), s)
      /\ \A n \in Names : GrowsAtTail(Free(n), Free(n)')
    ]_vars

\* A request got the socket pooled first while the socket pooled second is
\* still free.
C6_Witness ==
  \E n \in Names :
    /\ Len(Free(n)) > 0
    /\ Len(served[n]) = 0
    /\ \E s \in Range(Busy(n)) :
         /\ Cardinality(Holders(s)) = 2
         /\ \A f \in Range(Free(n)) : Cardinality(Holders(f)) = 1 /\ s < f

\* C7: 'free' on a socket that is not destroyed, with a request queued for
\* its destination, gives the socket to the head of the queue in that
\* step: the busy and free lists are unchanged, the socket is in the busy
\* list, the queue loses its head and no connect call is made.
C7_ReleaseServesQueueHead ==
  [][ \A s \in 1..MaxSocketObjs, k \in BOOLEAN :
        /\ s \in DOMAIN sock
        /\ ~sock[s].destroyed
        /\ Len(Queue(sock[s].name)) > 0
        /\ SocketFree(s, k)
        =>
          LET n == sock[s].name
              r == Head(Queue(n))
          IN /\ s \in Range(Busy(n))
             /\ sockets' = sockets
             /\ freeSockets' = freeSockets
             /\ Queue(n)' = Tail(Queue(n))
             /\ req'[r].socks = <<s>>
             /\ sock'[s].httpMessage = r
             /\ attempts' = attempts
    ]_vars

\* A released socket went to a queued request, a second request is still
\* queued and nothing is free.
C7_Witness ==
  \E n \in Names :
    /\ Len(served[n]) = 1
    /\ Len(Queue(n)) = 1
    /\ Len(Free(n)) = 0
    /\ \E s \in Range(Busy(n)) :
         Holders(s) = {served[n][1]} \cup {r \in DOMAIN req : r < served[n][1]}

AllFree == UNION {Range(Free(n)) : n \in Names}
AllBusy == UNION {Range(Busy(n)) : n \in Names}

\* C8: a socket enters a free list only in a 'free' step of that socket
\* whose consumer asked for keep-alive, with the socket not destroyed and
\* the keepAlive option set; a 'free' step with no request queued that
\* misses one of the three leaves the socket in no list and destroyed; and
\* without the keepAlive option every free list is empty.
C8_PoolOnlyKeepAlive ==
  /\ [][ /\ \A s \in AllFree' \ AllFree :
              /\ keepAlive
              /\ s \in DOMAIN sock
              /\ ~sock[s].destroyed
              /\ SocketFree(s, TRUE)
         /\ \A s \in 1..MaxSocketObjs, k \in BOOLEAN :
              /\ s \in DOMAIN sock
              /\ Len(Queue(sock[s].name)) = 0
              /\ ~(k /\ ~sock[s].destroyed /\ keepAlive)
              /\ SocketFree(s, k)
              => /\ s \notin AllFree' \cup AllBusy'
                 /\ sock'[s].destroyed
       ]_vars
  /\ [](~keepAlive => AllFree = {})

\* With keepAlive set one released socket is pooled and another, released
\* without keep-alive, is in no list and destroyed.
C8_Witness ==
  /\ keepAlive
  /\ \E s, u \in DOMAIN sock :
       /\ s \in AllFree
       /\ u \notin AllFree \cup AllBusy
       /\ sock[u].destroyed /\ ~sock[u].closed
       /\ sock[u].httpMessage # 0 /\ ~sock[u].held

\* C9: a free list never holds more than maxFreeSockets sockets; 'free' on
\* a socket fit for pooling, with no request queued and the free list at
\* maxFreeSockets, leaves the free lists unchanged and the socket in no
\* list and destroyed.
C9_FreeWithinMaxFree ==
  /\ [](\A n \in Names : Len(Free(n)) <= maxFreeSockets)
  /\ [][ \A s \in 1..MaxSocketObjs :
           /\ s \in DOMAIN sock
           /\ keepAlive /\ ~sock[s].destroyed
           /\ Len(Queue(sock[s].name)) = 0
           /\ Len(Free(sock[s].name)) = maxFreeSockets
           /\ SocketFree(s, TRUE)
           => /\ freeSockets' = freeSockets
              /\ s \notin AllBusy'
              /\ sock'[s].destroyed
       ]_vars

\* With maxFreeSockets below maxSockets the free list is full and a second
\* socket, released while it was full, is in no list and destroyed.
C9_Witness ==
  /\ keepAlive
  /\ maxFreeSockets < maxSockets
  /\ \E n \in Names :
       /\ Len(Free(n)) = maxFreeSockets
       /\ Len(Busy(n)) = 0
       /\ \E u \in DOMAIN sock :
            /\ sock[u].name = n
            /\ u \notin AllFree \cup AllBusy
            /\ sock[u].destroyed /\ ~sock[u].closed /\ sock[u].hooked
            /\ \A f \in Range(Free(n)) : f < u

ReplaceAttempt(r, n) == SetToBag({[kind |-> "replace", req |-> r, name |-> n]})

\* The socket created in this step went to request r, the head of n's
\* queue, and no request was added.
NewSocketServes(r, n) ==
  LET new == Len(sock) + 1
  IN /\ Len(sock') = new
     /\ req'[r].socks = <<new>>
     /\ new \in Range(Busy(n)')
     /\ Queue(n)' = Tail(Queue(n))
     /\ Len(req') = Len(req)

\* C10: when the 'close' or 'agentRemove' event of a listed socket removes
\* it while a request is queued for its destination, a socket is requested
\* for the head of the queue: the tunnel client is called for it, or
\* without a tunnel client the socket is created and given to it in that
\* step.  When the tunnel client calls back with the socket and a request
\* is queued, the head of the queue gets it, with no addRequest call.
C10_ReplacementServesQueue ==
  [][ /\ \A s \in 1..MaxSocketObjs :
           /\ s \in AllBusy \cup AllFree
           /\ Len(Queue(sock[s].name)) > 0
           /\ \/ SocketClose(s) /\ sock[s].hooked
              \/ AgentRemove(s)
           => LET n == sock[s].name
                  r == Head(Queue(n))
              IN /\ s \notin AllBusy' \cup AllFree'
                 /\ IF tunnelClient
                      THEN /\ attempts' = attempts (+) ReplaceAttempt(r, n)
                           /\ Len(sock') = Len(sock)
                      ELSE /\ attempts' = attempts
                           /\ NewSocketServes(r, n)
      /\ \A a \in Attempts :
           /\ a.kind = "replace"
           /\ Len(Queue(a.name)) > 0
           /\ ConnectSuccess(a)
           => NewSocketServes(Head(Queue(a.name)), a.name)
    ]_vars

\* With a tunnel client a socket was closed and a queued request has the
\* socket made in its place.
C10_Witness ==
  /\ tunnelClient
  /\ \E n \in Names : \E i \in DOMAIN served[n] :
       \E s \in Range(req[served[n][i]].socks) :
         /\ Holders(s) = {served[n][i]}
         /\ \E c \in 1..(s - 1) : sock[c].closed /\ sock[c].name = n

\* The registry and the pending connect calls are as before the step and
\* no socket was created.
RegistryUnchanged ==
  /\ requests' = requests
  /\ sockets' = sockets
  /\ freeSockets' = freeSockets
  /\ attempts' = attempts
  /\ Len(sock') = Len(sock)

\* C11: when the tunnel client's connect call made by removeSocket for a
\* queued request calls back with an error, the head of the destination's
\* queue gets that error and leaves the queue, and no other request gets
\* an error.
C11_TunnelErrorFailsQueueHead ==
  [][ \A a \in Attempts :
        /\ a.kind = "replace"
        /\ Len(Queue(a.name)) > 0
        /\ ConnectError(a)
        => LET r == Head(Queue(a.name))
           IN /\ req'[r].errors = req[r].errors + 1
              /\ Queue(a.name)' = Tail(Queue(a.name))
              /\ \A o \in DOMAIN req \ {r} : req'[o] = req[o]
    ]_vars

\* C12: when the connect call made by addRequest calls back with an error,
\* the request that addRequest was called with gets that error and has no
\* socket, no other request changes, no socket is created and the busy
\* lists, the free lists and the queues are as before the callback.
C12_CreateErrorFailsOwnRequest ==
  [][ \A a \in Attempts :
        /\ a.kind = "add"
        /\ ConnectError(a)
        => /\ req'[a.req] = [req[a.req] EXCEPT !.errors = 1]
           /\ req[a.req].socks = <<>>
           /\ \A o \in DOMAIN req \ {a.req} : req'[o] = req[o]
           /\ requests' = requests
           /\ sockets' = sockets
           /\ freeSockets' = freeSockets
           /\ sock' = sock
    ]_vars

\* A request has failed while no socket was ever created, so the error is
\* the one of its own connect call.
C12_Witness ==
  /\ Len(sock) = 0
  /\ \E r \in DOMAIN req : req[r].errors = 1 /\ req[r].socks = <<>>

\* C13: 'free', 'close' or 'agentRemove' on a socket that is in no busy
\* list and no free list changes no list and no queue and creates or
\* requests no socket, whatever the queue holds.
C13_UnlistedSocketIsNoOp ==
  [][ \A s \in 1..MaxSocketObjs :
        /\ s \in DOMAIN sock
        /\ s \notin AllBusy \cup AllFree
        /\ \/ SocketClose(s)
           \/ AgentRemove(s)
           \/ \E k \in BOOLEAN : SocketFree(s, k)
        => RegistryUnchanged
    ]_vars

\* C14: after agent.destroy(), called with no connect call pending, every
\* socket that was in a busy or free list is destroyed, and once the
\* 'close' event of each of them has been handled every busy list and
\* every free list is empty, also when requests were queued at the call.
C14_DestroyEmptiesLists ==
  destroyCall.called /\ ~destroyCall.pending =>
    /\ \A s \in destroyCall.socks : sock[s].destroyed
    /\ (\A s \in destroyCall.socks : sock[s].closed)
         => AllBusy \cup AllFree = {}

\* C15: after 'agentRemove' has evicted a socket, no later event on that
\* socket (release, closure, tunnel error, idle timeout) changes a busy
\* list, a free list or a queue, or starts a connection attempt.
C15_EvictedSocketIsDetached ==
  [][ \A s \in 1..MaxSocketObjs :
        /\ s \in DOMAIN sock /\ ~sock[s].hooked
        /\ \/ SocketClose(s) \/ ReapTimeout(s) \/ SocketTunnelError(s)
           \/ \E k \in BOOLEAN : SocketFree(s, k)
        => RegistryUnchanged ]_vars

\* C16: in every reachable state no destroyed socket is in a free list,
\* also between the destruction of a socket and its 'close' event.
C16_NoDestroyedFreeSocket ==
  \A s \in AllFree : ~sock[s].destroyed

\* C17: a queue never stalls: while a request waits in the queue of a
\* name, a socket is listed for that name or a connect call for it is
\* pending, so that a release, a closure or a callback can still serve or
\* fail the request.
C17_QueueNeverStalls ==
  \A n \in Names :
    Len(Queue(n)) > 0 =>
      \/ Len(Busy(n)) + Len(Free(n)) > 0
      \/ \E a \in Attempts : a.name = n /\ BagIn(a, attempts)

\* C18: after every operation none of the maps sockets, freeSockets and
\* requests holds an empty list under any name: an entry is deleted as
\* soon as its list becomes empty.
C18_NoEmptyEntry ==
  /\ \A n \in DOMAIN sockets : Len(sockets[n]) > 0
  /\ \A n \in DOMAIN freeSockets : Len(freeSockets[n]) > 0
  /\ \A n \in DOMAIN requests : Len(requests[n]) > 0

\* C19: in every reachable state and for every name, the free list and
\* the queue are not both non-empty: no request waits while an idle
\* socket for the same name is pooled.
C19_NoWaitingBesideFree ==
  \A n \in Names : ~(Len(Free(n)) > 0 /\ Len(Queue(n)) > 0)

\* A socket is pooled under a name whose queue has been used: a release
\* found the queue empty after earlier releases or replacements served it.
C19_Witness ==
  /\ keepAlive
  /\ \E n \in Names : Len(Free(n)) > 0 /\ Len(served[n]) > 0

\* C20: a request submitted while the queue of its name is non-empty is
\* not given a socket before the requests already in that queue: while a
\* request waits in a queue, no request submitted after it to the same
\* name holds or has held a socket.
C20_NoQueueJumping ==
  \A n \in Names :
    \A q \in Range(Queue(n)) :
      \A r \in DOMAIN req :
        r > q /\ req[r].name = n => ~Assigned(r)

====
